---- MODULE Spec2Model ----
(***************************************************************************)
(* Model of the Telegram update-dispatch pipeline: the webhook endpoint    *)
(* (api/webhooks.py), the update dispatcher (services/telegram_handler.py),*)
(* the conversation store (services/conversation_manager.py over the       *)
(* tables of db/models.py) and the outbound client                         *)
(* (services/telegram_client.py).                                          *)
(*                                                                         *)
(* Texts are sequences of one-character strings, so that startswith, ==    *)
(* and the f-string concatenation are computed as the code computes them.  *)
(* The long canned replies are abbreviated to a one-element sequence that  *)
(* names them.  JSON objects are records; a key that is missing from the   *)
(* payload is a field that is missing from the record.                     *)
(***************************************************************************)
EXTENDS Integers, Sequences, FiniteSets, Bags, TLC

\* ------------------------------------------------------------------ bounds
\* number of webhook calls received, and run concurrently, in one behaviour
NReq == 2
\* number of Message rows inserted by direct store calls
MaxMsgs == 6

\* --------------------------------------------------------------- constants
\* settings.TELEGRAM_WEBHOOK_SECRET, and the header values tried against it
Secret == "s3cret"
Headers == {Secret, "wrong", "absent"}

Users == {42, 43}

STATUS_ACTIVE == "active"
ConversationStatus == {"active", "escalated", "resolved", "archived"}
SenderType == {"user", "bot", "agent"}

\* --------------------------------------------------------------- variables
VARIABLES
    conversations,  \* table conversations: set of rows
    messages,       \* table messages: rows in insertion order
    clock,          \* datetime.utcnow(), read when a Message row is built
    req,            \* the webhook calls received: a bag of request states
    received,       \* number of webhook calls received so far
    ret             \* outcome of the last direct store call

vars == <<conversations, messages, clock, req, received, ret>>

\* ------------------------------------------------------- conversation store
\* select(Conversation).where(telegram_user_id == u, status == ACTIVE)
SelectActive(convs, u) ==
    {c \in convs : c.telegram_user_id = u /\ c.status = STATUS_ACTIVE}

\* mapped_column(Integer, unique=True): a second row for the user is rejected
UniqueViolation_PerStatus(convs, u) ==
    \E c \in convs : c.telegram_user_id = u /\ c.status = STATUS_ACTIVE
UniqueViolation_NoIndex(convs, u) == FALSE
UniqueViolation(convs, u) == \E c \in convs : c.telegram_user_id = u

\* Conversation(telegram_user_id=u, status=ACTIVE); ids are 1, 2, ... for uuid4
NewConversation_Escalated(convs, u) ==
    [id |-> Cardinality(convs) + 1, telegram_user_id |-> u, status |-> "escalated"]
NewConversation(convs, u) ==
    [id |-> Cardinality(convs) + 1, telegram_user_id |-> u, status |-> STATUS_ACTIVE]

\* ForeignKey("conversations.id") on Message.conversation_id
ForeignKeyViolation(convs, cid) == \A c \in convs : c.id # cid

\* Message(conversation_id, sender_type, content, telegram_message_id),
\* created_at defaulting to utcnow
NewMessage(msgs, cid, sender, content, tmid, now) ==
    [id |-> Len(msgs) + 1, conversation_id |-> cid, sender_type |-> sender,
     content |-> content, telegram_message_id |-> tmid, created_at |-> now]

\* db.add(message); commit(); refresh(message)
CommitMessage_Lost(msgs, row) == msgs
CommitMessage(msgs, row) == Append(msgs, row)

Range(s) == {s[i] : i \in DOMAIN s}

\* ORDER BY created_at DESC LIMIT limit, over the rows of one conversation
RECURSIVE OrderDescLimit(_, _)
OrderDescLimit(rows, limit) ==
    IF rows = {} \/ limit = 0 THEN <<>>
    ELSE LET newest == CHOOSE m \in rows : \A o \in rows : o.created_at <= m.created_at
         IN  <<newest>> \o OrderDescLimit(rows \ {newest}, limit - 1)

Reverse(s) == [i \in 1..Len(s) |-> s[Len(s) + 1 - i]]

\* ConversationManager.get_messages: a negative LIMIT is rejected by the engine
get_messages_NoReverse(msgs, cid, limit) ==
    IF limit < 0 THEN [err |-> "DataError", rows |-> <<>>]
    ELSE [err |-> "none",
          rows |-> OrderDescLimit({m \in Range(msgs) : m.conversation_id = cid}, limit)]
get_messages(msgs, cid, limit) ==
    IF limit < 0 THEN [err |-> "DataError", rows |-> <<>>]
    ELSE [err |-> "none",
          rows |-> Reverse(OrderDescLimit({m \in Range(msgs) : m.conversation_id = cid}, limit))]


\* ------------------------------------------------------------------- texts
T_start == <<"/", "s", "t", "a", "r", "t">>
T_help == <<"/", "h", "e", "l", "p">>
T_bogus == <<"/", "b", "o", "g", "u", "s">>
T_start_now == <<"/", "s", "t", "a", "r", "t", " ", "n", "o", "w">>
T_hello == <<"h", "e", "l", "l", "o">>
T_unknown_prefix == <<"U", "n", "k", "n", "o", "w", "n", " ", "c", "o", "m", "m", "a", "n", "d", ":", " ">>
\* the canned replies of telegram_handler.py, named instead of spelled out
T_welcome == <<"<welcome_message>">>
T_help_text == <<"<help_text>">>
T_received == <<"<Message received! Full bot functionality coming soon.>">>
T_intake == <<"<Project intake flow coming soon! Please describe your project.>">>
T_ask == <<"<Ask me anything about our services!>">>
T_services == <<"<*Our Services:* ...>">>
T_escalate == <<"<Connecting you to our team... (Feature coming soon!)>">>

\* ---------------------------------------------------------------- payloads
EmptyDict == <<>>

Chat(c) == [id |-> c]
From(u) == [id |-> u]

\* chat messages with every field the handler reads
FullMessages ==
    {[chat |-> Chat(1), from |-> From(42), text |-> t, message_id |-> 9] :
        t \in {T_hello, T_start, T_help, T_bogus, T_start_now}}
    \cup {[chat |-> Chat(2), from |-> From(43), text |-> T_hello, message_id |-> 9]}
\* no text key: a photo, a sticker
NoTextMessages == {[chat |-> Chat(1), from |-> From(42), message_id |-> 9]}
\* a key the handler subscripts is missing
BrokenMessages ==
    { [from |-> From(42), text |-> T_hello, message_id |-> 9],
      [chat |-> Chat(1), text |-> T_hello, message_id |-> 9],
      [chat |-> Chat(1), from |-> From(42), text |-> T_hello] }
MessageValues == FullMessages \cup NoTextMessages \cup BrokenMessages

ActionTokens == {"action:start_project", "action:ask_questions",
                 "action:services", "action:escalate", "action:other"}
FullCallbacks ==
    {[id |-> "q1", data |-> d, message |-> [chat |-> Chat(1)]] : d \in ActionTokens}
BrokenCallbacks ==
    { [data |-> "action:services", message |-> [chat |-> Chat(1)]],
      [id |-> "q1", message |-> [chat |-> Chat(1)]],
      [id |-> "q1", data |-> "action:services"] }
CallbackValues == FullCallbacks \cup BrokenCallbacks

TheServicesCallback == [id |-> "q1", data |-> "action:services", message |-> [chat |-> Chat(1)]]
TheHelloMessage == [chat |-> Chat(1), from |-> From(42), text |-> T_hello, message_id |-> 9]

\* decoded update objects
Updates ==
    {[update_id |-> 1]}
    \cup {[update_id |-> 1, message |-> m] : m \in MessageValues \cup {EmptyDict}}
    \cup {[update_id |-> 1, callback_query |-> c] : c \in CallbackValues}
    \cup {[update_id |-> 1, message |-> m, callback_query |-> TheServicesCallback] :
            m \in {TheHelloMessage, EmptyDict}}

\* request bodies: not JSON, a JSON array, a JSON object
Bodies ==
    {[kind |-> "invalid"], [kind |-> "array"]}
    \cup {[kind |-> "object", value |-> u] : u \in Updates}

\* dict.get(key) is truthy: the key is there and its value is not empty
Truthy_KeyPresent(d, key) == key \in DOMAIN d
Truthy(d, key) == key \in DOMAIN d /\ DOMAIN d[key] # {}

\* message.get("text", "")
TextOf(message) == IF "text" \in DOMAIN message THEN message.text ELSE <<>>

\* message["chat"]["id"], message["from"]["id"], message["message_id"] all succeed
MessageExtractable(message) ==
    /\ {"chat", "from", "message_id"} \subseteq DOMAIN message
    /\ "id" \in DOMAIN message.chat
    /\ "id" \in DOMAIN message.from

\* callback_query["id"], ["data"], ["message"]["chat"]["id"] all succeed
CallbackExtractable(cb) ==
    /\ {"id", "data", "message"} \subseteq DOMAIN cb
    /\ "chat" \in DOMAIN cb.message
    /\ "id" \in DOMAIN cb.message.chat


\* --------------------------------------------------------- outbound client
NoMarkup == <<>>

\* TelegramClient.send_message: the payload posted to /sendMessage
send_message(chat_id, text, parse_mode, reply_markup) ==
    [method |-> "sendMessage", chat_id |-> chat_id, callback_query_id |-> "",
     text |-> text, parse_mode |-> parse_mode, reply_markup |-> reply_markup]

\* TelegramClient.answer_callback_query: the payload posted to /answerCallbackQuery
answer_callback_query(callback_query_id) ==
    [method |-> "answerCallbackQuery", chat_id |-> 0, callback_query_id |-> callback_query_id,
     text |-> <<>>, parse_mode |-> "", reply_markup |-> NoMarkup]

\* an attempted call with its outcome: ok, or raise_for_status()/transport raised
Attempt(call, ok) == [call |-> call, ok |-> ok]

\* -------------------------------------------------------------- dispatcher
\* the inline keyboard of handle_start_command, as its callback_data values
StartKeyboard_OtherToken == <<"action:start_project", "action:ask_questions",
                              "action:services", "action:other">>
StartKeyboard == <<"action:start_project", "action:ask_questions",
                   "action:services", "action:escalate">>

handle_start_command_NoKeyboard(chat_id) == send_message(chat_id, T_welcome, "", NoMarkup)
handle_start_command(chat_id) == send_message(chat_id, T_welcome, "", StartKeyboard)

handle_help_command(chat_id) == send_message(chat_id, T_help_text, "Markdown", NoMarkup)

\* TelegramHandler.handle_command
handle_command_ByPrefix(chat_id, command) ==
    IF Len(command) >= Len(T_start) /\ SubSeq(command, 1, Len(T_start)) = T_start
    THEN handle_start_command(chat_id)
    ELSE IF Len(command) >= Len(T_help) /\ SubSeq(command, 1, Len(T_help)) = T_help
    THEN handle_help_command(chat_id)
    ELSE send_message(chat_id, T_unknown_prefix \o command, "", NoMarkup)
handle_command(chat_id, command) ==
    IF command = T_start THEN handle_start_command(chat_id)
    ELSE IF command = T_help THEN handle_help_command(chat_id)
    ELSE send_message(chat_id, T_unknown_prefix \o command, "", NoMarkup)

\* text.startswith("/")
StartsWithSlash(text) == Len(text) > 0 /\ text[1] = "/"

\* the reply step of handle_message
MessageReply_AlwaysCommand(chat_id, text) == handle_command(chat_id, text)
MessageReply(chat_id, text) ==
    IF StartsWithSlash(text) THEN handle_command(chat_id, text)
    ELSE send_message(chat_id, T_received, "", NoMarkup)

\* the if/elif chain of handle_callback_query: the tokens that have a reply
HandledTokens_ElseBranch == ActionTokens
HandledTokens == {"action:start_project", "action:ask_questions",
                  "action:services", "action:escalate"}

CallbackReply(chat_id, data) ==
    IF data = "action:start_project" THEN send_message(chat_id, T_intake, "", NoMarkup)
    ELSE IF data = "action:ask_questions" THEN send_message(chat_id, T_ask, "", NoMarkup)
    ELSE IF data = "action:services" THEN send_message(chat_id, T_services, "Markdown", NoMarkup)
    ELSE send_message(chat_id, T_escalate, "", NoMarkup)

\* except Exception in handle_message / handle_callback_query: every kind
HandlerCatches_NotDelivery(e) == e # "DeliveryError"
HandlerCatches(e) == TRUE

\* except Exception in telegram_webhook: every kind
EndpointCatches_OnlyDecode(e) == e = "JSONDecodeError"
EndpointCatches(e) == TRUE

\* x_telegram_bot_api_secret_token != settings.TELEGRAM_WEBHOOK_SECRET
SecretMismatch_Never(header) == FALSE
SecretMismatch(header) == header # Secret

\* ---------------------------------------------------------- request state
\* one webhook call: the locals of telegram_webhook and of the handler it runs,
\* the store operations and outbound calls it has attempted, and its response
NewRequest ==
    [pc |-> "auth", header |-> "absent", body |-> [kind |-> "unread"],
     handler |-> "none", conv |-> 0, row |-> 0,
     store_ops |-> <<>>, calls |-> <<>>,
     exc |-> "none", caught |-> "none", response |-> 0]

\* the calls in flight or answered: a bag, the server does not tell them apart
Requests == BagToSet(req)

\* request q takes a step and becomes q2
Becomes(q, q2) == req' = (req (-) SetToBag({q})) (+) SetToBag({q2})

\* telegram_webhook returns {"ok": True}: HTTP 200
ReturnOk(rec) == [rec EXCEPT !.response = 200, !.pc = "done"]

\* an exception of kind e is raised in request state rec; in_handler says
\* whether the raise is inside the try block of a handler.  A handler that
\* catches it logs and returns, and so does the endpoint; an exception nobody
\* catches reaches main.global_exception_handler, which answers 500
Raise(rec, e, in_handler) ==
    LET by == IF in_handler /\ HandlerCatches(e) THEN "handler"
              ELSE IF EndpointCatches(e) THEN "endpoint"
              ELSE "server"
    IN  [rec EXCEPT !.exc = e, !.caught = by,
                    !.response = IF by = "server" THEN 500 ELSE 200,
                    !.pc = "done"]

\* ---------------------------------------------------------------- webhook
\* a POST /webhook/telegram arrives with header h
Receive(h) ==
    /\ received < NReq
    /\ req' = req (+) SetToBag({[NewRequest EXCEPT !.header = h]})
    /\ received' = received + 1
    /\ UNCHANGED <<conversations, messages, clock, ret>>

\* telegram_webhook: the secret check; HTTPException(403) on a mismatch
Authenticate(q) ==
    /\ q.pc = "auth"
    /\ Becomes(q, IF SecretMismatch(q.header)
                  THEN [q EXCEPT !.response = 403, !.pc = "done"]
                  ELSE [q EXCEPT !.pc = "dispatch"])
    /\ UNCHANGED <<conversations, messages, clock, received, ret>>

\* telegram_webhook: request.json() reads body b, update_data.get;
\* process_update: the choice of the handler; the handler's field extraction
Dispatch_CallbackFirst(q, b) ==
    /\ q.pc = "dispatch"
    /\ LET rec == [q EXCEPT !.body = b]
       IN  Becomes(q,
             IF b.kind = "invalid" THEN Raise(rec, "JSONDecodeError", FALSE)
             ELSE IF b.kind = "array" THEN Raise(rec, "AttributeError", FALSE)
             ELSE IF Truthy(b.value, "callback_query")
                  THEN IF CallbackExtractable(b.value.callback_query)
                       THEN [rec EXCEPT !.handler = "callback", !.pc = "cb_answer"]
                       ELSE Raise([rec EXCEPT !.handler = "callback"], "KeyError", TRUE)
             ELSE IF Truthy(b.value, "message")
                  THEN IF MessageExtractable(b.value.message)
                       THEN [rec EXCEPT !.handler = "message", !.pc = "goc_select"]
                       ELSE Raise([rec EXCEPT !.handler = "message"], "KeyError", TRUE)
             ELSE ReturnOk(rec))
    /\ UNCHANGED <<conversations, messages, clock, received, ret>>
Dispatch(q, b) ==
    /\ q.pc = "dispatch"
    /\ LET rec == [q EXCEPT !.body = b]
       IN  Becomes(q,
             IF b.kind = "invalid" THEN Raise(rec, "JSONDecodeError", FALSE)
             ELSE IF b.kind = "array" THEN Raise(rec, "AttributeError", FALSE)
             ELSE IF Truthy(b.value, "message")
                  THEN IF MessageExtractable(b.value.message)
                       THEN [rec EXCEPT !.handler = "message", !.pc = "goc_select"]
                       ELSE Raise([rec EXCEPT !.handler = "message"], "KeyError", TRUE)
             ELSE IF Truthy(b.value, "callback_query")
                  THEN IF CallbackExtractable(b.value.callback_query)
                       THEN [rec EXCEPT !.handler = "callback", !.pc = "cb_answer"]
                       ELSE Raise([rec EXCEPT !.handler = "callback"], "KeyError", TRUE)
             ELSE ReturnOk(rec))
    /\ UNCHANGED <<conversations, messages, clock, received, ret>>

MessageOf(q) == q.body.value.message
CallbackOf(q) == q.body.value.callback_query

\* get_or_create: the SELECT of the ACTIVE row; up = the storage answers
GocSelect(q) ==
    /\ q.pc = "goc_select"
    /\ \E up \in BOOLEAN :
         LET rec == [q EXCEPT !.store_ops = Append(@, "select")]
             found == SelectActive(conversations, MessageOf(q).from.id)
         IN  Becomes(q,
                 IF ~up THEN Raise(rec, "StorageUnavailable", TRUE)
                 ELSE IF Cardinality(found) > 1 THEN Raise(rec, "MultipleResultsFound", TRUE)
                 ELSE IF found # {}
                      THEN [rec EXCEPT !.conv = (CHOOSE c \in found : TRUE).id,
                                       !.pc = "add_message"]
                 ELSE [rec EXCEPT !.pc = "goc_insert"])
    /\ UNCHANGED <<conversations, messages, clock, received, ret>>

\* get_or_create: db.add(conversation); commit(); refresh()
GocInsert(q) ==
    /\ q.pc = "goc_insert"
    /\ \E up \in BOOLEAN :
         LET rec == [q EXCEPT !.store_ops = Append(@, "insert")]
             u == MessageOf(q).from.id
             row == NewConversation(conversations, u)
         IN  IF ~up
             THEN /\ Becomes(q, Raise(rec, "StorageUnavailable", TRUE))
                  /\ UNCHANGED conversations
             ELSE IF UniqueViolation(conversations, u)
             THEN /\ Becomes(q, Raise(rec, "IntegrityError", TRUE))
                  /\ UNCHANGED conversations
             ELSE /\ conversations' = conversations \cup {row}
                  /\ Becomes(q, [rec EXCEPT !.conv = row.id, !.pc = "add_message"])
    /\ UNCHANGED <<messages, clock, received, ret>>

\* handle_message: add_message(str(conversation.id), "user", text, message_id)
AddMessage_KeepsGoing(q) ==
    /\ q.pc = "add_message"
    /\ \E up \in BOOLEAN :
         LET rec == [q EXCEPT !.store_ops = Append(@, "add_message")]
             m == MessageOf(q)
             row == NewMessage(messages, rec.conv, "user", TextOf(m), m.message_id, clock)
         IN  IF ~up \/ ForeignKeyViolation(conversations, rec.conv)
             THEN /\ Becomes(q, [rec EXCEPT !.pc = "reply"])
                  /\ UNCHANGED <<messages, clock>>
             ELSE /\ messages' = CommitMessage(messages, row)
                  /\ clock' = clock + 1
                  /\ Becomes(q, [rec EXCEPT !.row = row.id, !.pc = "reply"])
    /\ UNCHANGED <<conversations, received, ret>>
AddMessage(q) ==
    /\ q.pc = "add_message"
    /\ \E up \in BOOLEAN :
         LET rec == [q EXCEPT !.store_ops = Append(@, "add_message")]
             m == MessageOf(q)
             row == NewMessage(messages, rec.conv, "user", TextOf(m), m.message_id, clock)
         IN  IF ~up
             THEN /\ Becomes(q, Raise(rec, "StorageUnavailable", TRUE))
                  /\ UNCHANGED <<messages, clock>>
             ELSE IF ForeignKeyViolation(conversations, rec.conv)
             THEN /\ Becomes(q, Raise(rec, "IntegrityError", TRUE))
                  /\ UNCHANGED <<messages, clock>>
             ELSE /\ messages' = CommitMessage(messages, row)
                  /\ clock' = clock + 1
                  /\ Becomes(q, [rec EXCEPT !.row = row.id, !.pc = "reply"])
    /\ UNCHANGED <<conversations, received, ret>>

\* handle_message: handle_command or the generic acknowledgment, one send_message
Reply_RecordsBot(q) ==
    /\ q.pc = "reply"
    /\ \E ok \in BOOLEAN :
         LET m == MessageOf(q)
             sent == MessageReply(m.chat.id, TextOf(m))
             rec == [q EXCEPT !.calls = Append(@, Attempt(sent, ok))]
         IN  /\ Becomes(q, IF ok THEN ReturnOk(rec)
                           ELSE Raise(rec, "DeliveryError", TRUE))
             /\ messages' = CommitMessage(messages,
                                NewMessage(messages, q.conv, "bot", sent.text, 0, clock))
             /\ clock' = clock + 1
    /\ UNCHANGED <<conversations, received, ret>>
Reply(q) ==
    /\ q.pc = "reply"
    /\ \E ok \in BOOLEAN :
         LET m == MessageOf(q)
             rec == [q EXCEPT !.calls = Append(@, Attempt(MessageReply(m.chat.id, TextOf(m)), ok))]
         IN  Becomes(q, IF ok THEN ReturnOk(rec)
                        ELSE Raise(rec, "DeliveryError", TRUE))
    /\ UNCHANGED <<conversations, messages, clock, received, ret>>

\* handle_callback_query: answer_callback_query(query_id), then the if/elif chain
CbAnswer_OnlyHandled(q) ==
    /\ q.pc = "cb_answer"
    /\ \E ok \in BOOLEAN :
         LET cb == CallbackOf(q)
             rec == IF cb.data \in HandledTokens
                    THEN [q EXCEPT !.calls = Append(@, Attempt(answer_callback_query(cb.id), ok))]
                    ELSE q
         IN  Becomes(q, IF ~ok THEN Raise(rec, "DeliveryError", TRUE)
                        ELSE IF cb.data \in HandledTokens THEN [rec EXCEPT !.pc = "cb_reply"]
                        ELSE ReturnOk(rec))
    /\ UNCHANGED <<conversations, messages, clock, received, ret>>
CbAnswer(q) ==
    /\ q.pc = "cb_answer"
    /\ \E ok \in BOOLEAN :
         LET cb == CallbackOf(q)
             rec == [q EXCEPT !.calls = Append(@, Attempt(answer_callback_query(cb.id), ok))]
         IN  Becomes(q, IF ~ok THEN Raise(rec, "DeliveryError", TRUE)
                        ELSE IF cb.data \in HandledTokens THEN [rec EXCEPT !.pc = "cb_reply"]
                        ELSE ReturnOk(rec))
    /\ UNCHANGED <<conversations, messages, clock, received, ret>>

\* handle_callback_query: the send_message of the matching branch
CbReply(q) ==
    /\ q.pc = "cb_reply"
    /\ \E ok \in BOOLEAN :
         LET cb == CallbackOf(q)
             rec == [q EXCEPT !.calls =
                        Append(@, Attempt(CallbackReply(cb.message.chat.id, cb.data), ok))]
         IN  Becomes(q, IF ok THEN ReturnOk(rec)
                        ELSE Raise(rec, "DeliveryError", TRUE))
    /\ UNCHANGED <<conversations, messages, clock, received, ret>>

NoReturn == [op |-> "none", arg |-> 0, limit |-> 0, err |-> "none", id |-> 0,
             rows |-> <<>>, rows_before |-> 0]

Init ==
    /\ conversations = {}
    /\ messages = <<>>
    /\ clock = 1
    /\ req = EmptyBag
    /\ received = 0
    /\ ret = NoReturn

Next ==
    \/ \E h \in Headers : Receive(h)
    \/ \E q \in Requests : Authenticate(q)
    \/ \E q \in Requests, b \in Bodies : Dispatch(q, b)
    \/ \E q \in Requests : GocSelect(q)
    \/ \E q \in Requests : GocInsert(q)
    \/ \E q \in Requests : AddMessage(q)
    \/ \E q \in Requests : Reply(q)
    \/ \E q \in Requests : CbAnswer(q)
    \/ \E q \in Requests : CbReply(q)

Spec == Init /\ [][Next]_vars

\* ------------------------------------------------------ direct store calls
\* conversation ids a caller may pass: those of the rows and one of no row
ConvIds == 1..(Cardinality(Users) + 1)
Limits == (0 - 1)..(MaxMsgs + 1)

\* ConversationManager.get_or_create, called by one caller at a time
StoreGetOrCreate(u) ==
    LET found == SelectActive(conversations, u)
        row == NewConversation(conversations, u)
        call == [NoReturn EXCEPT !.op = "get_or_create", !.arg = u,
                                 !.rows_before = Len(messages)]
    IN  /\ IF found # {}
           THEN /\ ret' = [call EXCEPT !.id = (CHOOSE c \in found : TRUE).id]
                /\ UNCHANGED conversations
           ELSE IF UniqueViolation(conversations, u)
           THEN /\ ret' = [call EXCEPT !.err = "IntegrityError"]
                /\ UNCHANGED conversations
           ELSE /\ conversations' = conversations \cup {row}
                /\ ret' = [call EXCEPT !.id = row.id]
        /\ UNCHANGED <<messages, clock, req, received>>

\* ConversationManager.add_message
StoreAddMessage(cid, sender, content, tmid) ==
    LET row == NewMessage(messages, cid, sender, content, tmid, clock)
        call == [NoReturn EXCEPT !.op = "add_message", !.arg = cid,
                                 !.rows_before = Len(messages)]
    IN  /\ Len(messages) < MaxMsgs
        /\ IF ForeignKeyViolation(conversations, cid)
           THEN /\ ret' = [call EXCEPT !.err = "IntegrityError"]
                /\ UNCHANGED <<messages, clock>>
           ELSE /\ messages' = CommitMessage(messages, row)
                /\ clock' = clock + 1
                /\ ret' = [call EXCEPT !.id = row.id]
        /\ UNCHANGED <<conversations, req, received>>

\* ConversationManager.get_messages
StoreGetMessages(cid, limit) ==
    LET res == get_messages(messages, cid, limit)
    IN  /\ ret' = [NoReturn EXCEPT !.op = "get_messages", !.arg = cid, !.limit = limit,
                                   !.err = res.err, !.rows = res.rows,
                                   !.rows_before = Len(messages)]
        /\ UNCHANGED <<conversations, messages, clock, req, received>>

NextStore ==
    \/ \E u \in Users : StoreGetOrCreate(u)
    \/ \E cid \in ConvIds : StoreAddMessage(cid, "user", T_hello, 9)
    \/ \E cid \in ConvIds, limit \in Limits : StoreGetMessages(cid, limit)

SpecStore == Init /\ [][NextStore]_vars

\* -------------------------------------------- a store that already has rows
\* the conversations table as an earlier run or an operator may have left it:
\* at most one row for user 42, of any status of the enum column
SeededConversations ==
    {{}} \cup {{[id |-> 1, telegram_user_id |-> 42, status |-> st]} : st \in ConversationStatus}

InitSeeded ==
    /\ conversations \in SeededConversations
    /\ messages = <<>>
    /\ clock = 1
    /\ req = EmptyBag
    /\ received = 0
    /\ ret = NoReturn

SpecSeeded == InitSeeded /\ [][NextStore]_vars


\* ================================================================== claims
\* the external-user id of a request whose handle_message extracted its fields
UserOf(q) == MessageOf(q).from.id

\* the request's get_or_create call has been made and is over, and the storage
\* answered it (it returned, or it raised something else than unavailability)
GocOver(q) ==
    /\ q.handler = "message"
    /\ q.store_ops # <<>>
    /\ q.pc \notin {"goc_select", "goc_insert"}
    /\ ~(q.exc = "StorageUnavailable" /\ q.store_ops[Len(q.store_ops)] \in {"select", "insert"})

\* both the SELECT and the INSERT of get_or_create were issued by the request
ReadNoneThenInserted(q) ==
    /\ Len(q.store_ops) >= 2
    /\ q.store_ops[1] = "select"
    /\ q.store_ops[2] = "insert"

FailedCalls(q) == {i \in DOMAIN q.calls : ~q.calls[i].ok}

\* C1: under any interleaving of get_or_create calls there is at most one
\* ACTIVE conversation per user in every state, and once a call for a user is
\* over (storage reachable) there is exactly one ACTIVE conversation for them.
C1_OneActivePerUser ==
    /\ \A u \in Users : Cardinality(SelectActive(conversations, u)) <= 1
    /\ \A q \in Requests :
          GocOver(q) => Cardinality(SelectActive(conversations, UserOf(q))) = 1

\* two calls for the same unseen user both read "none" and both tried the INSERT
C1_Witness ==
    \E q1 \in Requests, q2 \in Requests :
        /\ GocOver(q1) /\ GocOver(q2)
        /\ ReadNoneThenInserted(q1) /\ ReadNoneThenInserted(q2)
        /\ UserOf(q1) = UserOf(q2)
        /\ q1.conv # 0 /\ q2.conv = 0
        /\ Cardinality(SelectActive(conversations, UserOf(q1))) = 1

\* C2: with storage reachable every get_or_create call returns a conversation
\* of the requested user and never fails, also when two calls race.
C2_GetOrCreateNeverFails ==
    \A q \in Requests :
        GocOver(q) =>
            \E c \in conversations : c.id = q.conv /\ c.telegram_user_id = UserOf(q)

\* C3: a webhook call whose secret header matches is answered 200 {"ok": true}
\* whatever was raised while it was processed.
C3_AlwaysAcknowledged ==
    \A q \in Requests :
        (q.pc = "done" /\ q.header = Secret) => q.response = 200

C3_Witness ==
    \E q1 \in Requests, q2 \in Requests :
        /\ q1.header = Secret /\ q1.exc \in {"JSONDecodeError", "AttributeError"}
        /\ q1.response = 200
        /\ q2.header = Secret /\ q2.exc \in {"StorageUnavailable", "DeliveryError", "KeyError"}
        /\ q2.response = 200

\* a rejected call: 403, body unread, no handler, no store operation, no call
C4_RejectedState ==
    \A q \in Requests :
        (q.header # Secret /\ q.pc # "auth") =>
            /\ q.pc = "done" /\ q.response = 403
            /\ q.body.kind = "unread" /\ q.handler = "none"
            /\ q.store_ops = <<>> /\ q.calls = <<>>

\* the step that rejects a call changes neither table
C4_RejectionStep ==
    (\E q \in Requests : q.header # Secret /\ q.pc = "auth"
                         /\ req' = (req (-) SetToBag({q}))
                                   (+) SetToBag({[q EXCEPT !.response = 403, !.pc = "done"]}))
        => (conversations' = conversations /\ messages' = messages)

\* C4: a webhook call whose secret header differs from the configured secret
\* (or is absent) is answered 403, reads no body, makes no store operation and
\* no outbound call, and its rejection leaves the store unchanged.
C4_MismatchIsRejected == [](C4_RejectedState) /\ [][C4_RejectionStep]_vars

C4_Witness ==
    \E q1 \in Requests, q2 \in Requests :
        /\ q1.header = "wrong" /\ q1.response = 403
        /\ q2.header = "absent" /\ q2.response = 403

\* C5: a failed outbound call (send-message or answer-callback) is caught in
\* the handler that made it: process_update returns normally and the
\* endpoint's except branch is not what answers.
C5_DeliveryFailureCaughtInDispatcher ==
    \A q \in Requests :
        FailedCalls(q) # {} =>
            /\ q.pc = "done" /\ q.exc = "DeliveryError"
            /\ q.caught = "handler" /\ q.response = 200

C5_Witness ==
    \E q1 \in Requests, q2 \in Requests :
        /\ q1.handler = "message" /\ FailedCalls(q1) # {} /\ q1.caught = "handler"
        /\ q2.handler = "callback" /\ FailedCalls(q2) # {} /\ q2.caught = "handler"

\* the USER row the request's add_message committed, and its conversation
PersistedFor(q) ==
    /\ \E c \in conversations : c.id = q.conv /\ c.telegram_user_id = UserOf(q)
    /\ \E i \in DOMAIN messages :
          /\ messages[i].id = q.row
          /\ messages[i].conversation_id = q.conv
          /\ messages[i].sender_type = "user"
          /\ messages[i].content = TextOf(MessageOf(q))
          /\ messages[i].telegram_message_id = MessageOf(q).message_id

\* C6: when the store writes of a chat message succeeded and the send that
\* follows fails, the conversation and the USER message are still in the store.
C6_DeliveryFailureKeepsRows ==
    \A q \in Requests :
        (q.handler = "message" /\ q.row # 0 /\ FailedCalls(q) # {}) => PersistedFor(q)

C6_Witness ==
    \E q \in Requests :
        /\ q.handler = "message" /\ q.row # 0 /\ FailedCalls(q) # {}
        /\ q.pc = "done" /\ PersistedFor(q)

\* C7: for a callback with data "action:services" the acknowledgment is
\* attempted first and then exactly one services message is sent to the chat,
\* whether the acknowledgment succeeded or failed.
C7_ServicesSentRegardlessOfAck ==
    \A q \in Requests :
        (q.pc = "done" /\ q.handler = "callback" /\ CallbackExtractable(CallbackOf(q))
           /\ CallbackOf(q).data = "action:services") =>
            /\ Len(q.calls) = 2
            /\ q.calls[1].call = answer_callback_query(CallbackOf(q).id)
            /\ q.calls[2].call =
                 send_message(CallbackOf(q).message.chat.id, T_services, "Markdown", NoMarkup)

\* the answer-callback calls and the send-message calls of a request
AnswerCalls(q) == {i \in DOMAIN q.calls : q.calls[i].call.method = "answerCallbackQuery"}
SendCalls(q) == {i \in DOMAIN q.calls : q.calls[i].call.method = "sendMessage"}

\* C8: for a callback press whose id, token and chat id can be extracted,
\* exactly one answer-callback call is issued, for that callback id, whether or
\* not the token is recognized, and before any send-message call.
C8_OneAckBeforeAnySend ==
    \A q \in Requests :
        (q.handler = "callback" /\ CallbackExtractable(CallbackOf(q)) /\ q.pc # "cb_answer") =>
            /\ Cardinality(AnswerCalls(q)) = 1
            /\ q.calls[1].call = answer_callback_query(CallbackOf(q).id)
            /\ \A i \in SendCalls(q) : \A j \in AnswerCalls(q) : j < i

C8_Witness ==
    \E q1 \in Requests, q2 \in Requests :
        /\ q1.pc = "done" /\ q1.handler = "callback"
        /\ CallbackExtractable(CallbackOf(q1)) /\ CallbackOf(q1).data = "action:other"
        /\ Cardinality(AnswerCalls(q1)) = 1 /\ SendCalls(q1) = {}
        /\ q2.pc = "done" /\ q2.handler = "callback"
        /\ CallbackExtractable(CallbackOf(q2)) /\ CallbackOf(q2).data \in HandledTokens
        /\ AnswerCalls(q2) = {1} /\ SendCalls(q2) = {2}

\* C9: add_message with a conversation id that is in no row fails with
\* NotFoundError and adds no Message row.
C9_MissingConversationIsNotFound ==
    (ret.op = "add_message" /\ ForeignKeyViolation(conversations, ret.arg)) =>
        (ret.err = "NotFoundError" /\ Len(messages) = ret.rows_before)

\* the messages of conversation cid in insertion order, and the last k of a sequence
InsertedInto(cid) ==
    LET Mine(m) == m.conversation_id = cid IN SelectSeq(messages, Mine)
LastK(s, k) == SubSeq(s, Len(s) - k + 1, Len(s))
Min(a, b) == IF a <= b THEN a ELSE b

\* C10: for limit >= 1 the recent-messages query returns the last
\* min(limit, n) of the n messages inserted into that conversation, oldest
\* first, and no message of another conversation.
C10_RecentMessagesOldestFirst ==
    (ret.op = "get_messages" /\ ret.limit >= 1) =>
        /\ ret.err = "none"
        /\ ret.rows = LastK(InsertedInto(ret.arg), Min(ret.limit, Len(InsertedInto(ret.arg))))

\* limit 3 over a conversation of five messages m1..m5, with a message of
\* another conversation inserted between them: the rows are m3, m4, m5
C10_Witness ==
    /\ ret.op = "get_messages" /\ ret.limit = 3
    /\ Len(InsertedInto(ret.arg)) = 5
    /\ \E i \in DOMAIN messages :
          /\ messages[i].conversation_id # ret.arg
          /\ 1 < i /\ i < Len(messages)
    /\ ret.rows = SubSeq(InsertedInto(ret.arg), 3, 5)
    /\ Len(ret.rows) = 3


\* C11: the recent-messages query called with limit <= 0 returns an empty
\* sequence and does not fail, whatever the conversation holds.
C11_NonPositiveLimitIsEmpty ==
    (ret.op = "get_messages" /\ ret.limit <= 0) =>
        (ret.err = "none" /\ ret.rows = <<>>)

\* C12: when the user's existing conversation is not ACTIVE, get_or_create
\* creates and returns a new ACTIVE conversation of that user.
C12_NonActiveUserGetsNewConversation ==
    (/\ ret.op = "get_or_create"
     /\ \E c \in conversations : c.telegram_user_id = ret.arg /\ c.status # STATUS_ACTIVE) =>
        /\ ret.err = "none"
        /\ \E c \in conversations :
              c.id = ret.id /\ c.telegram_user_id = ret.arg /\ c.status = STATUS_ACTIVE


\* two webhook calls of the bag (two records, or one record held twice)
TwoCalls(q1, q2) == q1 # q2 \/ CopiesIn(q1, req) >= 2

\* the request's get_or_create inserted the row it returned
Created(q) == GocOver(q) /\ ReadNoneThenInserted(q) /\ q.conv # 0
\* the request's get_or_create returned the row its SELECT found
Found(q) == GocOver(q) /\ ~ReadNoneThenInserted(q) /\ q.conv # 0

\* the rows of the messages table with one of the given ids
RowsWithId(ids) == {i \in DOMAIN messages : messages[i].id \in ids}

\* C13: processing the identical chat-message payload twice leaves exactly one
\* ACTIVE conversation for the user (storage reachable for at least one of the
\* get_or_create calls); when the second run comes after the first, it reuses
\* the conversation the first created, and two USER Message rows exist.
C13_ReplayKeepsOneConversation ==
    \A q1 \in Requests, q2 \in Requests :
        (/\ TwoCalls(q1, q2)
         /\ q1.pc = "done" /\ q2.pc = "done"
         /\ q1.handler = "message" /\ q2.handler = "message"
         /\ q1.body = q2.body) =>
            /\ (GocOver(q1) \/ GocOver(q2)) =>
                  Cardinality(SelectActive(conversations, UserOf(q1))) = 1
            /\ (Created(q1) /\ Found(q2)) =>
                  /\ q2.conv = q1.conv
                  /\ (q1.row # 0 /\ q2.row # 0) =>
                        /\ q1.row # q2.row
                        /\ Cardinality(RowsWithId({q1.row, q2.row})) = 2
                        /\ PersistedFor(q1) /\ PersistedFor(q2)

C13_Witness ==
    \E q1 \in Requests, q2 \in Requests :
        /\ q1.pc = "done" /\ q2.pc = "done" /\ q1.body = q2.body
        /\ Created(q1) /\ Found(q2) /\ q2.conv = q1.conv
        /\ q1.row # 0 /\ q2.row # 0 /\ Len(messages) = 2
        /\ Cardinality(conversations) = 1

\* the request is the only one that has touched the store
OnlyStoreUser(q) ==
    /\ CopiesIn(q, req) = 1
    /\ \A o \in Requests : o # q => o.store_ops = <<>>

\* C14: a "/start" chat message from a user with no conversation creates
\* exactly one conversation for the user, persists exactly one USER message
\* with content "/start" and the platform message id, and makes exactly one
\* outbound call: a send-message to the update's chat with the four-option
\* keyboard.
C14_StartScenario ==
    \A q \in Requests :
        (/\ q.pc = "done" /\ q.handler = "message"
         /\ Created(q) /\ q.row # 0
         /\ TextOf(MessageOf(q)) = <<"/", "s", "t", "a", "r", "t">>) =>
            /\ Cardinality({c \in conversations : c.telegram_user_id = UserOf(q)}) = 1
            /\ Cardinality(RowsWithId({q.row})) = 1
            /\ PersistedFor(q)
            /\ OnlyStoreUser(q) => (Cardinality(conversations) = 1 /\ Len(messages) = 1)
            /\ Len(q.calls) = 1
            /\ q.calls[1].call.method = "sendMessage"
            /\ q.calls[1].call.chat_id = MessageOf(q).chat.id
            /\ Len(q.calls[1].call.reply_markup) = 4
            /\ Range(q.calls[1].call.reply_markup) =
                  {"action:start_project", "action:ask_questions",
                   "action:services", "action:escalate"}

C14_Witness ==
    \E q \in Requests :
        /\ q.pc = "done" /\ Created(q) /\ q.row # 0 /\ OnlyStoreUser(q)
        /\ TextOf(MessageOf(q)) = T_start
        /\ UserOf(q) = 42 /\ MessageOf(q).chat.id = 1
        /\ Len(messages) = 1 /\ messages[1].content = T_start
        /\ messages[1].telegram_message_id = 9
        /\ Len(q.calls) = 1 /\ q.calls[1].ok
        /\ q.calls[1].call.reply_markup = StartKeyboard

\* a chat message that reached the reply step with this text
RepliedTo(q, text) ==
    /\ q.pc = "done" /\ q.handler = "message" /\ q.row # 0
    /\ TextOf(MessageOf(q)) = text

\* C15: a chat message whose text begins with "/" and is not exactly "/start"
\* or "/help" gets one reply whose text is "Unknown command: " followed by the
\* literal text; "/start now" is such a text.
C15_UnknownCommandEcho ==
    \A q \in Requests :
        (/\ q.pc = "done" /\ q.handler = "message" /\ q.row # 0
         /\ Len(TextOf(MessageOf(q))) > 0 /\ TextOf(MessageOf(q))[1] = "/"
         /\ TextOf(MessageOf(q)) \notin {<<"/", "s", "t", "a", "r", "t">>, <<"/", "h", "e", "l", "p">>}) =>
            /\ Len(q.calls) = 1
            /\ q.calls[1].call.method = "sendMessage"
            /\ q.calls[1].call.text =
                 <<"U", "n", "k", "n", "o", "w", "n", " ", "c", "o", "m", "m", "a", "n", "d", ":", " ">>
                 \o TextOf(MessageOf(q))
            /\ q.calls[1].call.reply_markup = <<>>

C15_Witness ==
    \E q1 \in Requests, q2 \in Requests :
        /\ RepliedTo(q1, T_bogus)
        /\ q1.calls[1].call.text =
             <<"U", "n", "k", "n", "o", "w", "n", " ", "c", "o", "m", "m", "a", "n", "d", ":", " ",
               "/", "b", "o", "g", "u", "s">>
        /\ RepliedTo(q2, T_start_now)
        /\ q2.calls[1].call.text =
             <<"U", "n", "k", "n", "o", "w", "n", " ", "c", "o", "m", "m", "a", "n", "d", ":", " ",
               "/", "s", "t", "a", "r", "t", " ", "n", "o", "w">>

\* C16: when a chat-message update fails before the reply step (a field is
\* missing, or get_or_create or add_message fails) the webhook still answers
\* 200 and no outbound call is made for it; when a field is missing the
\* request makes no store operation either.
C16_FailureBeforeReply ==
    \A q \in Requests :
        (q.pc = "done" /\ q.handler = "message" /\ q.row = 0) =>
            /\ q.response = 200
            /\ q.calls = <<>>
            /\ q.exc \in {"KeyError", "StorageUnavailable", "IntegrityError"}
            /\ ~MessageExtractable(MessageOf(q)) => (q.exc = "KeyError" /\ q.store_ops = <<>>)

C16_Witness ==
    \E q1 \in Requests, q2 \in Requests :
        /\ q1.pc = "done" /\ q1.handler = "message" /\ "from" \notin DOMAIN MessageOf(q1)
        /\ q1.response = 200 /\ q1.calls = <<>> /\ q1.store_ops = <<>>
        /\ q2.pc = "done" /\ q2.handler = "message" /\ q2.row = 0
        /\ q2.exc = "StorageUnavailable" /\ q2.store_ops # <<>>
        /\ q2.response = 200 /\ q2.calls = <<>>

\* C17: a callback press whose token is none of the four known tokens is
\* acknowledged and then nothing more: the acknowledgment is the only
\* outbound call, and the handler returns normally.
C17_UnknownTokenIsSilent ==
    \A q \in Requests :
        (/\ q.pc = "done" /\ q.handler = "callback"
         /\ CallbackExtractable(CallbackOf(q))
         /\ CallbackOf(q).data \notin {"action:start_project", "action:ask_questions",
                                       "action:services", "action:escalate"}) =>
            /\ Len(q.calls) = 1
            /\ q.calls[1].call.method = "answerCallbackQuery"
            /\ q.calls[1].ok => q.exc = "none"
            /\ q.caught # "endpoint" /\ q.response = 200

C17_Witness ==
    \E q \in Requests :
        /\ q.pc = "done" /\ q.handler = "callback"
        /\ CallbackExtractable(CallbackOf(q)) /\ CallbackOf(q).data = "action:other"
        /\ Len(q.calls) = 1 /\ q.calls[1].ok /\ q.exc = "none"

\* the update object carries neither a chat message nor a callback press
NeitherShape(u) ==
    /\ "message" \notin DOMAIN u \/ u.message = EmptyDict
    /\ "callback_query" \notin DOMAIN u \/ u.callback_query = EmptyDict

\* C18: an update that carries neither a chat message nor a callback press is
\* dropped: no handler runs, nothing is raised, no store operation and no
\* outbound call is made.
C18_OtherShapesDropped ==
    \A q \in Requests :
        (q.pc = "done" /\ q.body.kind = "object" /\ NeitherShape(q.body.value)) =>
            /\ q.handler = "none" /\ q.exc = "none"
            /\ q.store_ops = <<>> /\ q.calls = <<>>
            /\ q.response = 200

C18_Witness ==
    \E q1 \in Requests, q2 \in Requests :
        /\ q1.pc = "done" /\ q1.body.kind = "object" /\ DOMAIN q1.body.value = {"update_id"}
        /\ q1.handler = "none" /\ q1.response = 200
        /\ q2.pc = "done" /\ q2.body.kind = "object" /\ "message" \in DOMAIN q2.body.value
        /\ NeitherShape(q2.body.value)
        /\ q2.handler = "none" /\ q2.response = 200

\* C19: every well-formed inbound chat message ends persisted as a USER
\* message under its user's ACTIVE conversation when storage is reachable,
\* also when two updates of one unseen user are processed concurrently.
C19_EveryMessagePersisted ==
    \A q \in Requests :
        (/\ q.pc = "done" /\ q.handler = "message"
         /\ MessageExtractable(MessageOf(q))
         /\ q.exc # "StorageUnavailable") =>
            /\ q.row # 0
            /\ PersistedFor(q)
            /\ \E c \in SelectActive(conversations, UserOf(q)) : c.id = q.conv

\* C20: a chat message whose conversation was resolved and whose USER row was
\* persisted gets exactly one send-message attempt, to the update's chat: the
\* command-table reply when the text begins with "/", the generic
\* acknowledgment otherwise; a message without text is persisted with empty
\* content and gets the generic acknowledgment.
C20_OneReplyPerMessage ==
    \A q \in Requests :
        (q.pc = "done" /\ q.handler = "message" /\ q.row # 0) =>
            LET m == MessageOf(q)
                text == IF "text" \in DOMAIN m THEN m.text ELSE <<>>
                sent == q.calls[1].call
            IN  /\ Len(q.calls) = 1
                /\ sent.method = "sendMessage"
                /\ sent.chat_id = m.chat.id
                /\ IF text # <<>> /\ text[1] = "/"
                   THEN sent = handle_command(m.chat.id, text)
                   ELSE sent.text = T_received /\ sent.reply_markup = NoMarkup
                /\ "text" \notin DOMAIN m =>
                      /\ \E i \in DOMAIN messages :
                            messages[i].id = q.row /\ messages[i].content = <<>>
                      /\ sent.text = T_received

C20_Witness ==
    \E q1 \in Requests, q2 \in Requests :
        /\ q1.pc = "done" /\ q1.handler = "message" /\ q1.row # 0
        /\ "text" \notin DOMAIN MessageOf(q1)
        /\ q1.calls[1].call.text = T_received
        /\ q2.pc = "done" /\ q2.handler = "message" /\ q2.row # 0
        /\ TextOf(MessageOf(q2)) = T_help
        /\ q2.calls[1].call = handle_help_command(MessageOf(q2).chat.id)


\* the requests whose add_message step committed a row
Persisters == {q \in Requests : q.row # 0}

\* C21: every Message row has sender role USER and was created by the
\* add_message step of one inbound chat message; the reply step adds no row,
\* and a callback press makes no store operation at all.
C21_OnlyInboundUserRows ==
    /\ \A i \in DOMAIN messages :
          /\ messages[i].sender_type = "user"
          /\ \E q \in Persisters :
                /\ q.handler = "message" /\ q.row = messages[i].id
                /\ q.store_ops[Len(q.store_ops)] = "add_message"
                /\ messages[i].content = TextOf(MessageOf(q))
                /\ messages[i].conversation_id = q.conv
    /\ \A q \in Persisters : CopiesIn(q, req) = 1
    /\ \A q1 \in Persisters, q2 \in Persisters : q1.row = q2.row => q1 = q2
    /\ Len(messages) = Cardinality(Persisters)
    /\ \A q \in Requests :
          q.handler = "callback" => (q.store_ops = <<>> /\ q.row = 0 /\ q.conv = 0)

C21_Witness ==
    \E q1 \in Requests, q2 \in Requests :
        /\ q1.pc = "done" /\ q1.handler = "message" /\ q1.row # 0
        /\ Len(q1.calls) = 1 /\ q1.calls[1].ok
        /\ q2.pc = "done" /\ q2.handler = "callback"
        /\ Len(q2.calls) = 2 /\ q2.calls[2].ok
        /\ Len(messages) = 1 /\ messages[1].sender_type = "user"


\* every row of the conversations table is ACTIVE
AllActive == \A c \in conversations : c.status = "active"

\* a step keeps every conversation row as it is: none deleted, none updated
ConversationsKept == conversations \subseteq conversations'

\* C22: starting from an empty store, every conversation has status ACTIVE
\* after any sequence of updates, and no step changes the status of an
\* existing conversation or deletes one.
C22_StatusStaysActive == [](AllActive) /\ [][ConversationsKept]_vars

C22_Witness ==
    \E c \in conversations, q1 \in Requests, q2 \in Requests :
        /\ c.status = "active" /\ conversations = {c}
        /\ q1.pc = "done" /\ Created(q1) /\ q1.conv = c.id
        /\ q2.pc = "done" /\ Found(q2) /\ q2.conv = c.id
        /\ q1.body # q2.body /\ Len(messages) = 2


\* the callback_data values of the keyboard that handle_start_command sends
KeyboardTokens(chat_id) == Range(handle_start_command(chat_id).reply_markup)

\* a callback press of a keyboard button whose fields could be extracted and
\* whose handling is over
ButtonPressed(q) ==
    /\ q.pc = "done" /\ q.handler = "callback"
    /\ CallbackExtractable(CallbackOf(q))
    /\ CallbackOf(q).data \in KeyboardTokens(CallbackOf(q).message.chat.id)

\* C23: the tokens handle_start_command attaches to its buttons are exactly
\* the tokens handle_callback_query has a branch for, and a press of any of
\* them is answered, once the acknowledgment call has returned, by exactly one
\* send-message to the chat of the press (a failed acknowledgment ends the
\* handling with that one call).
C23_KeyboardTokensAreHandled ==
    /\ \A chat_id \in {1, 2} :
          /\ KeyboardTokens(chat_id) = HandledTokens
          /\ Cardinality(KeyboardTokens(chat_id)) = 4
    /\ \A q \in Requests :
          ButtonPressed(q) =>
              /\ q.calls[1].call = answer_callback_query(CallbackOf(q).id)
              /\ Len(q.calls) = IF q.calls[1].ok THEN 2 ELSE 1
              /\ q.calls[1].ok =>
                    /\ q.calls[2].call.method = "sendMessage"
                    /\ q.calls[2].call.chat_id = CallbackOf(q).message.chat.id
                    /\ q.calls[2].call.text \in {T_intake, T_ask, T_services, T_escalate}
                    /\ Cardinality(SendCalls(q)) = 1

C23_Witness ==
    \E q1 \in Requests, q2 \in Requests :
        /\ ButtonPressed(q1) /\ CallbackOf(q1).data = "action:escalate"
        /\ Len(q1.calls) = 2 /\ q1.calls[2].call.text = T_escalate
        /\ ButtonPressed(q2) /\ CallbackOf(q2).data = "action:start_project"
        /\ Len(q2.calls) = 2 /\ q2.calls[2].call.text = T_intake


\* the update object of the request has the key, with a non-empty object under it
Carries(q, key) == key \in DOMAIN q.body.value /\ q.body.value[key] # EmptyDict
\* the update object of the request has the key, with an empty object under it
CarriesEmpty(q, key) == key \in DOMAIN q.body.value /\ q.body.value[key] = EmptyDict

\* C24: at most one handler runs per update.  An update with a non-empty
\* message and a callback_query runs only the chat-message path: no
\* answer-callback call.  An update whose message is present but empty is
\* handled as a callback press when it has one (no store operation), and is
\* dropped otherwise.
C24_AtMostOneHandler ==
    \A q \in Requests :
        (q.body.kind = "object") =>
            /\ (q.handler = "message") => AnswerCalls(q) = {}
            /\ (q.handler = "callback") => q.store_ops = <<>>
            /\ (q.pc = "done") => Cardinality(SendCalls(q)) <= 1
            /\ (Carries(q, "message") /\ Carries(q, "callback_query")) =>
                  /\ q.handler = "message"
                  /\ AnswerCalls(q) = {}
            /\ (CarriesEmpty(q, "message") /\ Carries(q, "callback_query")) =>
                  /\ q.handler = "callback"
                  /\ q.store_ops = <<>>
                  /\ \A i \in SendCalls(q) : i = 2
            /\ (CarriesEmpty(q, "message") /\ ~Carries(q, "callback_query")) =>
                  /\ q.handler = "none"
                  /\ q.store_ops = <<>> /\ q.calls = <<>>

C24_Witness ==
    \E q1 \in Requests, q2 \in Requests :
        /\ q1.pc = "done" /\ q1.body.kind = "object"
        /\ Carries(q1, "message") /\ Carries(q1, "callback_query")
        /\ q1.handler = "message" /\ q1.row # 0
        /\ Len(q1.calls) = 1 /\ q1.calls[1].call.method = "sendMessage"
        /\ q2.pc = "done" /\ q2.body.kind = "object"
        /\ CarriesEmpty(q2, "message") /\ Carries(q2, "callback_query")
        /\ q2.handler = "callback" /\ Len(q2.calls) = 2
        /\ q2.calls[1].call.method = "answerCallbackQuery"


\* at most one conversation row per external-user id, whatever the status
OneRowPerUser ==
    \A c1 \in conversations, c2 \in conversations :
        c1.telegram_user_id = c2.telegram_user_id => c1 = c2

\* a get_or_create that returned a row returned the user's ACTIVE row, and one
\* called for a user whose row is not ACTIVE failed at commit
SecondInsertFails ==
    (ret.op = "get_or_create") =>
        /\ (ret.err = "none") =>
              \E c \in conversations :
                  c.id = ret.id /\ c.telegram_user_id = ret.arg /\ c.status = "active"
        /\ (\E c \in conversations : c.telegram_user_id = ret.arg /\ c.status # "active") =>
              ret.err = "IntegrityError"
        /\ (ret.err = "IntegrityError") =>
              \E c \in conversations : c.telegram_user_id = ret.arg /\ c.status # "active"

\* a get_or_create step that failed at commit wrote nothing
FailedInsertWritesNothing ==
    (ret'.op = "get_or_create" /\ ret'.err = "IntegrityError") =>
        (conversations' = conversations /\ messages' = messages)

\* C25: in every store state there is at most one conversation row per
\* external-user id, regardless of status; an insert of a second row for a
\* user fails at commit and leaves the existing row and all messages as they
\* were.
C25_OneRowPerUserAnyStatus ==
    [](OneRowPerUser /\ SecondInsertFails) /\ [][FailedInsertWritesNothing]_vars

C25_Witness ==
    /\ ret.op = "get_or_create" /\ ret.err = "IntegrityError" /\ ret.arg = 42
    /\ \E c \in conversations :
          /\ conversations = {c} /\ c.telegram_user_id = 42 /\ c.status = "resolved"
          /\ Len(messages) >= 1 /\ messages[1].conversation_id = c.id
          /\ ret.rows_before = Len(messages)

====
